---- MODULE Spec2Model ----
(***************************************************************************)
(* Group-scoped authorization of loopback-component-access-groups:         *)
(* the dynamic role resolver registered per configured role principal      *)
(* (lib/role-resolvers.js), the membership store it counts in, and the     *)
(* groupAccessApplied flag it leaves on the request's options bag.         *)
(*                                                                         *)
(* One action is one JavaScript callback run to completion: the            *)
(* synchronous part of a resolver call, or the completion of one store     *)
(* call (findById, related-group fetch, count) with the promise reactions  *)
(* that follow from it.                                                    *)
(***************************************************************************)
EXTENDS Naturals, Integers, Sequences, FiniteSets, Bags, TLC

None == "none"

(* ---- bounds ---- *)
MaxRows == 2
MaxRoles == 2
MaxParseCalls == 3

(* ---- configuration (parseConfigOptions defaults) ---- *)
userKey == "userId"
groupKey == "groupId"
userModel == "User"
groupModel == "Group"
groupAccessModel == "GroupAccess"
groupRoles == << <<"$group", ":", "admin">>, <<"$group", ":", "member">> >>

(* ---- value universes ---- *)
Users == {"u1", "u2"}
Groups == {"g1", "g2"}
RowRoles == {"admin", "Admin", "member"}
Requests == {"r1", "r2"}
Models == {"User", "Group", "GroupAccess", "Doc", "Note", "Task"}

(* ---- strings ---- *)
(* A principal id is a sequence of chunks: ":" or a maximal colon-free     *)
(* non-empty run of characters.  SplitColon is String.prototype.split(':') *)
(* on that representation: the list of segments, "" for an empty one.      *)
RECURSIVE SplitColon(_)
SplitColon(s) ==
  IF s = <<>> THEN <<"">>
  ELSE IF Head(s) = ":" THEN <<"">> \o SplitColon(Tail(s))
  ELSE LET rest == SplitColon(Tail(s))
       IN  <<Head(s)>> \o Tail(rest)

\* principalId.split(':')[1]; None stands for undefined
extractRoleName(principalId) ==
  LET parts == SplitColon(principalId)
  IN  IF Len(parts) >= 2 THEN parts[2] ELSE None

\* String.prototype.toLowerCase on the role names of the model
Lower(s) == IF s = "Admin" THEN "admin" ELSE s

(* ---- parseConfigOptions (utils.js 18-61) ---- *)
\* Boolean(extractRoleName(principalId)): undefined and '' are falsy
isValidPrincipalId(principalId) == extractRoleName(principalId) \notin {None, ""}

\* principal ids an application may configure
PrincipalIds ==
  {<<"$group", ":", "admin">>, <<"$group", ":", "member">>, <<"$group", ":">>,
   <<"admin">>, <<"$owner", ":", "admin">>, <<":", "admin">>, <<>>}

\* an option of the options object: left out, or given with a value; a
\* key name is a list of chunks, the empty list the empty string
Absent == [given |-> FALSE, val |-> <<>>]
Given(v) == [given |-> TRUE, val |-> v]

\* the model and key names of an options object that names none
NoNames == [userModel |-> None, userKey |-> Absent, groupModel |-> None, groupKey |-> Absent]

\* model and key names an application may configure
NameOptions ==
  [userModel : {None, "User", "Account"},
   userKey : {Absent, Given(<<>>), Given(<<"owner", "Id">>)},
   groupModel : {None, "Group", "Team"},
   groupKey : {Absent, Given(<<>>), Given(<<"team", "Id">>)}]

\* the options object given to the component: its groupRoles (or none) and
\* its model and key names
OptionsObjs ==
  {[given |-> FALSE, groupRoles |-> <<>>, names |-> n] : n \in NameOptions} \cup
  {[given |-> TRUE, groupRoles |-> l, names |-> NoNames] :
     l \in UNION {[1..n -> PrincipalIds] : n \in 0..MaxRoles}}

\* String.prototype.toLowerCase on the model names
toLowerCase(name) ==
  CASE name = "User" -> "user" [] name = "Account" -> "account"
    [] name = "Group" -> "group" [] name = "Team" -> "team" [] OTHER -> name

\* `${model.toLowerCase()}Id`
modelKey(model) == <<toLowerCase(model), "Id">>

\* the userKey / groupKey entry of the defaults object given to _defaults
keyDefault(literal) == Given(literal)

\* _defaults: the option when given, the default otherwise
defaulted(option, default) == IF option.given THEN option ELSE default

\* `key || fallback`: undefined and '' are falsy
orElse(option, fallback) ==
  IF option.given /\ option.val # <<>> THEN option.val ELSE fallback

\* the model and key names of the parsed options (utils.js 28-46)
parsedNames(names) ==
  LET um == IF names.userModel = None THEN "User" ELSE names.userModel
      gm == IF names.groupModel = None THEN "Group" ELSE names.groupModel
      uk == defaulted(names.userKey, keyDefault(<<"user", "Id">>))
      gk == defaulted(names.groupKey, keyDefault(<<"group", "Id">>))
  IN  [userModel |-> um, userKey |-> orElse(uk, modelKey(um)),
       groupModel |-> gm, groupKey |-> orElse(gk, modelKey(gm))]

\* _defaults({ }, optionsObj, { ..., groupRoles: [...] })
parsedGroupRoles(optionsObj) ==
  IF optionsObj.given THEN optionsObj.groupRoles ELSE groupRoles

\* nothing parsed yet
freshSetup ==
  [stored |-> FALSE, settings |-> <<>>, calls |-> 0, last |-> "none",
   input |-> <<>>, returned |-> <<>>,
   names |-> parsedNames(NoNames), opts |-> NoNames]

\* the component was set up with the default options
parsedSetup ==
  [stored |-> TRUE, settings |-> groupRoles, calls |-> 1, last |-> "ok",
   input |-> groupRoles, returned |-> groupRoles,
   names |-> parsedNames(NoNames), opts |-> NoNames]

(* ---- the content store: model instances ---- *)
(* fk is the instance's groupKey property, rel the group reached through   *)
(* the model's belongsTo relation to the group model.                      *)
instances ==
  [m \in Models |->
     CASE m = "Doc"  -> ("d1" :> [fk |-> "g1", rel |-> "g1"]) @@
                        ("d2" :> [fk |-> "g2", rel |-> "g2"]) @@
                        ("d3" :> [fk |-> None, rel |-> None])
       [] m = "Note" -> ("n1" :> [fk |-> None, rel |-> "g1"])
       [] m = "Task" -> ("t1" :> [fk |-> None, rel |-> None])
       [] m \in {"User", "GroupAccess"} -> <<>>
       [] OTHER      -> ("g1" :> [fk |-> None, rel |-> None]) @@
                        ("g2" :> [fk |-> None, rel |-> None])]

\* a belongsTo relation to the group model is declared on the model
hasBelongsToGroup(m) == m \in {"Doc", "Note"}

\* AccessUtils.isGroupModel
isGroupModel(modelClass) == modelClass # None /\ modelClass = groupModel

\* the (model, modelId) pairs a request may carry
Targets ==
  {<<"Group", None>>, <<"Group", "g1">>, <<"Group", "g2">>,
   <<"Doc", None>>, <<"Doc", "d1">>, <<"Doc", "d2">>, <<"Doc", "d3">>,
   <<"Doc", "zz">>, <<"Note", "n1">>, <<"Task", "t1">>,
   <<"User", None>>, <<"GroupAccess", None>>}

(* ---- the membership store ---- *)
Row(u, g, r) == (userKey :> u) @@ (groupKey :> g) @@ ("role" :> r)
RowUniverse == {Row(u, g, r) : u \in Users, g \in Groups, r \in RowRoles}

RECURSIVE SeqToBag(_)
SeqToBag(s) == IF s = <<>> THEN EmptyBag ELSE SetToBag({Head(s)}) (+) SeqToBag(Tail(s))

Stores == {SeqToBag(s) : s \in UNION {[1..n -> RowUniverse] : n \in 0..MaxRows}}

\* a where condition on one property: equality, or case-insensitive ilike
Eq(v) == [op |-> "eq", val |-> v]
ILike(v) == [op |-> "ilike", val |-> v]

Holds(c, v) == IF c.op = "ilike" THEN Lower(v) = Lower(c.val) ELSE v = c.val

\* a row matches when every property of the where clause is a property of
\* the row and holds of its value
Matches(row, where) ==
  \A k \in DOMAIN where : k \in DOMAIN row /\ Holds(where[k], row[k])

\* GroupAccessModel.count(where)
Count(store, where) ==
  LET hit == {x \in BagToSet(store) : Matches(x, where)}
  IN  BagCardinality([x \in hit |-> store[x]])


(* ---- state ---- *)
VARIABLES
  applyToStatic,        \* options.applyToStatic: FALSE basic mode, TRUE extended mode
  rows,                 \* the GroupAccess rows, a bag
  ctx,                  \* per request: the access context the resolvers are called with
  groupAccessApplied,   \* per request: args.options.groupAccessApplied ("absent", "false", "true")
  inv,                  \* per resolver invocation: its position, locals and outcome
  read,                 \* per request: the read that follows the access check
  setup,                \* component setup: the settings stored on the app and the last parse
  listing,              \* the last run of an afterRemote listing hook
  mw                    \* the last run of the updateUserGroupAccessed middleware

vars == <<applyToStatic, rows, ctx, groupAccessApplied, inv, read, setup, listing, mw>>

\* the requests in flight, and their resolver invocations: the access check
\* of a request calls the resolver of every configured role principal
Reqs == DOMAIN ctx
Invs == {<<r, k>> : r \in Reqs, k \in 1..Len(groupRoles)}

Contexts ==
  [userId : {None, "u1"}, hasOptions : BOOLEAN, target : Targets,
   header : Groups \cup {None}]

idleInv ==
  [pc |-> "idle", roleName |-> None, outcome |-> "pending", failed |-> FALSE,
   cur |-> None, tgt |-> None, curSt |-> "none", tgtSt |-> "none",
   bypass |-> FALSE, q |-> <<>>, cnt |-> <<>>, sets |-> 0, lookups |-> 0,
   appliedAfter |-> "absent", fetchFlag |-> "none", calls |-> 0,
   rowsAtCur |-> EmptyBag]

\* the caller's own where clause, one opaque conjunct
callerWhere == [kind |-> "caller", key |-> "title", val |-> {}]

idleRead ==
  [pc |-> "idle", where0 |-> <<>>, where |-> <<>>, hasUser |-> FALSE,
   via |-> "none", failed |-> FALSE, lookups |-> 0, applied |-> "absent"]

\* no listing hook has run
idleListing ==
  [pc |-> "idle", kind |-> "none", who |-> None, result |-> <<>>,
   single |-> FALSE, out |-> <<>>]

\* the middleware has not run
idleMw ==
  [pc |-> "idle", currentUserId |-> None, currentGroupId |-> None,
   nexts |-> 0, err |-> FALSE, finds |-> 0, instance |-> None, updated |-> FALSE]

Init ==
  /\ applyToStatic \in BOOLEAN
  /\ rows \in Stores
  /\ ctx \in [{"r1"} -> Contexts]
  /\ groupAccessApplied = [r \in Reqs |-> "absent"]
  /\ inv = [i \in Invs |-> idleInv]
  /\ read = [r \in Reqs |-> idleRead]
  /\ setup = parsedSetup
  /\ listing = idleListing
  /\ mw = idleMw

modelOf(r) == ctx[r].target[1]
modelIdOf(r) == ctx[r].target[2]

(* ---- helpers of the resolver ---- *)
\* createPromiseCallback: cb(err, data) rejects on err, else resolves data
callback(err, res) == IF err THEN "error" ELSE IF res THEN "ALLOW" ELSE "DENY"

\* variant: a rejection is swallowed and access granted
onRejectedAllow == callback(FALSE, TRUE)

\* `.catch(cb)`: a rejection reaches the caller as cb(err)
onRejected == callback(TRUE, FALSE)

\* variant: the anonymous check is missing
isAnonymousNever(userId) == FALSE

\* `if (!userId)`
isAnonymous(userId) == userId = None

\* variant: the role is matched with ilike
basicConditionsILike(userId, role, group) ==
  ("userId" :> Eq(userId)) @@ ("role" :> ILike(role)) @@ (groupKey :> Eq(group))

\* hasRoleInGroup: where clause { userId, role } plus groupKey
basicConditions(userId, role, group) ==
  ("userId" :> Eq(userId)) @@ ("role" :> Eq(role)) @@ (groupKey :> Eq(group))

\* variant: one row is not enough
hasRoleStrict(count) == count > 1

\* hasRoleInGroup: res = count > 0
hasRole(count) == count > 0

\* extended mode: where clause { role: { ilike }, groupKey, userKey }
extendedConditions(userId, roleName, group) ==
  ("role" :> ILike(roleName)) @@ (groupKey :> Eq(group)) @@ (userKey :> Eq(userId))

\* `targetGroupId && targetGroupId !== currentGroupId`
distinctTarget(currentGroupId, targetGroupId) ==
  targetGroupId # None /\ targetGroupId # currentGroupId

\* variant: both counts read the one conditions object after line 133
joinActionsAliased(userId, roleName, currentGroupId, targetGroupId) ==
  IF distinctTarget(currentGroupId, targetGroupId)
  THEN <<extendedConditions(userId, roleName, targetGroupId),
         extendedConditions(userId, roleName, targetGroupId)>>
  ELSE <<extendedConditions(userId, roleName, currentGroupId)>>

\* the where clauses of the counts pushed by the join handler, in order;
\* each count receives its where clause when it is called
joinActions(userId, roleName, currentGroupId, targetGroupId) ==
  IF distinctTarget(currentGroupId, targetGroupId)
  THEN <<extendedConditions(userId, roleName, currentGroupId),
         extendedConditions(userId, roleName, targetGroupId)>>
  ELSE <<extendedConditions(userId, roleName, currentGroupId)>>

\* variant: the target group count is ignored
spreadResultNoTarget(bypass, cnt, currentGroupId, targetGroupId) ==
  IF bypass THEN TRUE ELSE cnt[1] > 0

\* the spread handler's res; cnt is the list of counts, bypass stands for [ false ]
spreadResult(bypass, cnt, currentGroupId, targetGroupId) ==
  IF bypass THEN TRUE
  ELSE IF distinctTarget(currentGroupId, targetGroupId)
       THEN cnt[1] > 0 /\ cnt[2] > 0
       ELSE cnt[1] > 0

\* variant: the options bag is taken to be there
noOptionsNever(hasOptions) == FALSE

\* `if (!context.remotingContext.args.options)`
noOptions(hasOptions) == ~hasOptions

\* variant: a count reads the rows as they were when the current group
\* was resolved
countStoreSnapshot(snapshot, current) == snapshot

\* GroupAccessModel.count reads the store as it is when the query runs
countStore(snapshot, current) == current

\* variant: the flag is only initialised, a value already there is kept
resetFlagKeep(flag) == IF flag = "absent" THEN "false" ELSE flag

\* `options.groupAccessApplied = false` at the start of every invocation
resetFlag(flag) == "false"

\* variant: the join handler runs once the current group is known
joinReadyCurrentOnly(curSt, tgtSt) == curSt = "ok"

\* Promise.join: the handler runs when both promises are fulfilled
joinReady(curSt, tgtSt) == curSt = "ok" /\ tgtSt = "ok"

\* variant: the flag is written whatever the result
commitFlagAlways(res) == TRUE

\* `if (res) options.groupAccessApplied = true`
commitFlag(res) == res

\* variant: one options object serves every request
optionsShared(r) == CHOOSE x \in Reqs : TRUE

\* context.remotingContext.args.options: the options bag of the request
\* the context belongs to (group-context.js creates it on the request)
optionsOf(r) == r

\* variant: the header is not read
headerGroupNone(r) == None

\* the header read by getCurrentGroupId / getTargetGroupId
headerGroup(r) == ctx[r].header

(* ---- getCurrentGroupId (261-305), getTargetGroupId (314-333) ---- *)
\* variant: the value is handed out once per request
currentGroupIdOfOnce(r) ==
  IF \E i \in Invs : i[1] = r /\ inv[i].curSt = "ok" THEN None
  ELSE IF isGroupModel(modelOf(r)) THEN modelIdOf(r)
  ELSE IF modelIdOf(r) = None THEN headerGroup(r)
  ELSE IF modelIdOf(r) \in DOMAIN instances[modelOf(r)]
       THEN instances[modelOf(r)][modelIdOf(r)].fk ELSE None

\* the value getCurrentGroupId resolves to when its lookup does not fail
currentGroupIdOf(r) ==
  LET m == modelOf(r)
      id == modelIdOf(r)
  IN  IF isGroupModel(m) THEN id
      ELSE IF id # None
           THEN IF id \in DOMAIN instances[m] THEN instances[m][id].fk ELSE None
           ELSE headerGroup(r)

\* variant: the instance is fetched for the group model as well
fetchesInstanceAnyModel(r) == modelIdOf(r) # None

\* getCurrentGroupId fetches the instance
fetchesInstance(r) == ~isGroupModel(modelOf(r)) /\ modelIdOf(r) # None

\* variant: a target group only for requests without an instance id
targetGroupIdOfCreateOnly(r) == IF modelIdOf(r) = None THEN headerGroup(r) ELSE None

\* the value getTargetGroupId resolves to
targetGroupIdOf(r) == headerGroup(r)

(* ---- delivering an outcome ---- *)
\* variant: the invocation goes on after its callback was called
DeliverAndGoOn(i, loc, out, flag) ==
  inv' = [inv EXCEPT ![i] = [loc EXCEPT !.outcome = out, !.appliedAfter = flag,
                                       !.calls = @ + 1]]

\* the invocation's callback is called: its locals become `loc`, the
\* outcome is recorded with the flag the request's options hold at that time
Deliver(i, loc, out, flag) ==
  inv' = [inv EXCEPT ![i] = [loc EXCEPT !.pc = "done", !.outcome = out,
                                       !.appliedAfter = flag, !.calls = @ + 1]]

\* a store call of invocation i is issued
Issued(loc) == [loc EXCEPT !.lookups = @ + 1]

(* ---- the resolver, synchronous part (role-resolvers.js 38-172) ---- *)
Invoke(i) ==
  LET r == i[1]
      c == ctx[r]
      roleName == extractRoleName(groupRoles[i[2]])
      me == [inv[i] EXCEPT !.roleName = roleName]
      reset == resetFlag(groupAccessApplied[optionsOf(r)])
  IN
  /\ inv[i].pc = "idle"
  /\ UNCHANGED <<applyToStatic, rows, ctx, read, setup, listing, mw>>
  /\ IF isAnonymous(c.userId)
     THEN /\ Deliver(i, me, callback(FALSE, FALSE), groupAccessApplied[optionsOf(r)])
          /\ UNCHANGED groupAccessApplied
     ELSE IF noOptions(c.hasOptions)
     THEN /\ Deliver(i, me, callback(FALSE, TRUE), groupAccessApplied[optionsOf(r)])
          /\ UNCHANGED groupAccessApplied
     ELSE
       /\ groupAccessApplied' = [groupAccessApplied EXCEPT ![optionsOf(r)] = reset]
       /\ IF ~applyToStatic
          THEN IF modelOf(r) = None \/ modelIdOf(r) = None
               THEN Deliver(i, me, callback(FALSE, FALSE), reset)
               ELSE IF isGroupModel(modelOf(r))
               THEN inv' = [inv EXCEPT ![i] = [Issued(me) EXCEPT
                        !.pc = "count",
                        !.q = <<basicConditions(c.userId, roleName, modelIdOf(r))>>,
                        !.cnt = <<-1>>]]
               ELSE inv' = [inv EXCEPT ![i] = [Issued(me) EXCEPT !.pc = "findById"]]
          ELSE inv' = [inv EXCEPT ![i] = [me EXCEPT
                        !.pc = "resolving", !.curSt = "pending", !.tgtSt = "pending",
                        !.lookups = IF fetchesInstance(r) THEN @ + 1 ELSE @,
                        \* findById reaches the model's access observers
                        \* before the resolver returns
                        !.fetchFlag = IF fetchesInstance(r) THEN reset ELSE @]]

(* ---- basic mode: isGroupMemberWithRole (182-235), hasRoleInGroup (237-252) ---- *)
\* the findById callback
BasicFindById(i) ==
  LET r == i[1]
      c == ctx[r]
      me == inv[i]
      m == modelOf(r)
      id == modelIdOf(r)
  IN
  /\ me.pc = "findById"
  /\ UNCHANGED <<applyToStatic, rows, ctx, read, setup, listing, groupAccessApplied, mw>>
  /\ \E err \in BOOLEAN :
       IF err
       THEN Deliver(i, [me EXCEPT !.failed = TRUE], onRejected, groupAccessApplied[optionsOf(r)])
       ELSE IF id \notin DOMAIN instances[m]
       THEN Deliver(i, me, callback(FALSE, FALSE), groupAccessApplied[optionsOf(r)])
       ELSE IF instances[m][id].fk # None
       THEN inv' = [inv EXCEPT ![i] = [Issued(me) EXCEPT
                      !.pc = "count",
                      !.q = <<basicConditions(c.userId, me.roleName, instances[m][id].fk)>>,
                      !.cnt = <<-1>>]]
       ELSE IF hasBelongsToGroup(m)
       THEN inv' = [inv EXCEPT ![i] = [Issued(me) EXCEPT !.pc = "related"]]
       ELSE Deliver(i, me, callback(FALSE, FALSE), groupAccessApplied[optionsOf(r)])

\* processRelatedGroup, the callback of the belongsTo accessor
BasicRelated(i) ==
  LET r == i[1]
      me == inv[i]
      group == instances[modelOf(r)][modelIdOf(r)].rel
  IN
  /\ me.pc = "related"
  /\ UNCHANGED <<applyToStatic, rows, ctx, read, setup, listing, groupAccessApplied, mw>>
  /\ \E error \in BOOLEAN :
       IF error
       THEN Deliver(i, [me EXCEPT !.failed = TRUE], onRejected, groupAccessApplied[optionsOf(r)])
       ELSE IF group = None
       THEN Deliver(i, me, callback(FALSE, FALSE), groupAccessApplied[optionsOf(r)])
       \* `this.hasRoleInGroup` inside a plain function: `this` is not the
       \* resolver object, the callback throws and cb is never called
       ELSE inv' = [inv EXCEPT ![i] = [me EXCEPT !.pc = "thrown"]]

\* the reaction to GroupAccess.count in hasRoleInGroup; there is no
\* rejection handler, so a failed count leaves every promise pending
BasicCount(i) ==
  LET r == i[1]
      me == inv[i]
  IN
  /\ me.pc = "count"
  /\ UNCHANGED <<applyToStatic, rows, ctx, read, setup, listing, groupAccessApplied, mw>>
  /\ \E err \in BOOLEAN :
       IF err
       THEN inv' = [inv EXCEPT ![i] = [me EXCEPT !.pc = "hung", !.failed = TRUE]]
       ELSE LET count == Count(rows, me.q[1])
            IN  Deliver(i, [me EXCEPT !.cnt = <<count>>],
                        callback(FALSE, hasRole(count)), groupAccessApplied[optionsOf(r)])

(* ---- extended mode: the two resolutions settle ---- *)
\* getCurrentGroupId settles: the findById callback or the nextTick
CurResolve(i) ==
  LET r == i[1]
      me == inv[i]
  IN
  /\ me.pc = "resolving"
  /\ me.curSt = "pending"
  /\ UNCHANGED <<applyToStatic, rows, ctx, read, setup, listing, groupAccessApplied, mw>>
  /\ \E err \in BOOLEAN :
       /\ err => fetchesInstance(r)
       /\ IF err
          \* Promise.join rejects, `.catch(cb)` reports the error
          THEN Deliver(i, [me EXCEPT !.failed = TRUE, !.curSt = "failed"],
                       onRejected, groupAccessApplied[optionsOf(r)])
          ELSE inv' = [inv EXCEPT ![i] = [me EXCEPT !.curSt = "ok",
                                                    !.cur = currentGroupIdOf(r),
                                                    !.rowsAtCur = rows]]

\* getTargetGroupId settles on the next tick
TgtResolve(i) ==
  LET r == i[1]
      me == inv[i]
  IN
  /\ me.pc = "resolving"
  /\ me.tgtSt = "pending"
  /\ UNCHANGED <<applyToStatic, rows, ctx, read, setup, listing, groupAccessApplied, mw>>
  /\ inv' = [inv EXCEPT ![i] = [me EXCEPT !.tgtSt = "ok", !.tgt = targetGroupIdOf(r)]]

(* ---- extended mode: the join handler (107-138) ---- *)
Join(i) ==
  LET r == i[1]
      me == inv[i]
      actions == joinActions(ctx[r].userId, me.roleName, me.cur, me.tgt)
  IN
  /\ me.pc = "resolving"
  /\ joinReady(me.curSt, me.tgtSt)
  /\ UNCHANGED <<applyToStatic, rows, ctx, read, setup, listing, groupAccessApplied, mw>>
  /\ IF me.cur = None
     THEN inv' = [inv EXCEPT ![i] = [me EXCEPT !.pc = "counting", !.bypass = TRUE]]
     ELSE inv' = [inv EXCEPT ![i] = [me EXCEPT
                    !.pc = "counting", !.q = actions,
                    !.cnt = [k \in 1..Len(actions) |-> -1],
                    !.lookups = @ + Len(actions)]]

\* one GroupAccessModel.count settles
CountDone(i, k) ==
  LET r == i[1]
      me == inv[i]
  IN
  /\ me.pc = "counting"
  /\ k \in 1..Len(me.cnt)
  /\ me.cnt[k] = -1
  /\ UNCHANGED <<applyToStatic, rows, ctx, read, setup, listing, groupAccessApplied, mw>>
  /\ \E err \in BOOLEAN :
       IF err
       THEN Deliver(i, [me EXCEPT !.failed = TRUE], onRejected, groupAccessApplied[optionsOf(r)])
       ELSE inv' = [inv EXCEPT ![i] = [me EXCEPT
                      !.cnt[k] = Count(countStore(me.rowsAtCur, rows), me.q[k])]]

(* ---- extended mode: the spread handler (139-168) ---- *)
Spread(i) ==
  LET r == i[1]
      me == inv[i]
      res == spreadResult(me.bypass, me.cnt, me.cur, me.tgt)
      flag == IF commitFlag(res) THEN "true" ELSE groupAccessApplied[optionsOf(r)]
  IN
  /\ me.pc = "counting"
  /\ \A k \in 1..Len(me.cnt) : me.cnt[k] # -1
  /\ UNCHANGED <<applyToStatic, rows, ctx, read, setup, listing, mw>>
  /\ groupAccessApplied' = [groupAccessApplied EXCEPT ![optionsOf(r)] = flag]
  /\ Deliver(i, [me EXCEPT !.sets = IF commitFlag(res) THEN @ + 1 ELSE @],
             callback(FALSE, res), flag)

(* ---- the access hook and the filter builder (model-filters) ---- *)
\* AccessUtils.isUserModel: called by buildFilter, the check for the
\* configured user model
isUserModel(modelClass) == modelClass # None /\ modelClass = userModel

\* AccessUtils.isGroupAccessModel
isGroupAccessModel(modelClass) == modelClass # None /\ modelClass = groupAccessModel

\* AccessUtils.getGroupContentModels: models with a belongsTo relation to
\* the group model, the group and group access models left out
getGroupContentModels ==
  {m \in Models : ~(isGroupModel(m) \/ isGroupAccessModel(m)) /\ hasBelongsToGroup(m)}

\* the models setupFilters attaches the access hook to; index.js calls
\* setupFilters only when applyToStatic is set
hookedModelsAlways ==
  {userModel, groupModel, groupAccessModel} \cup getGroupContentModels

\* setupFilters, called by the component only `if (options.applyToStatic)`:
\* the models that get the hooks
hookedModels ==
  IF applyToStatic
  THEN {userModel, groupModel, groupAccessModel} \cup getGroupContentModels
  ELSE {}

\* options.currentGroupId as the group context middleware leaves it: the id
\* of the group found for the header value
optionsCurrentGroupId(r) ==
  IF headerGroup(r) # None /\ headerGroup(r) \in DOMAIN instances[groupModel]
  THEN headerGroup(r) ELSE None

\* buildFilter: the property the filter is put on
filterKey(Model) == IF isGroupModel(Model) THEN "id" ELSE groupKey

\* buildFilter: isUserGroupOrAccessModel
isUserGroupOrAccessModel(Model) ==
  isUserModel(Model) \/ isGroupModel(Model) \/ isGroupAccessModel(Model)

\* variant: the current group is used for every model
restrictsToGroupAnyModel(groupId, Model) == groupId # None

\* buildFilter: `if (groupId && !isUserGroupOrAccessModel)`
restrictsToGroup(groupId, Model) == groupId # None /\ ~isUserGroupOrAccessModel(Model)

\* filter[key] = groupId
groupFilter(key, groupId) == [kind |-> "eq", key |-> key, val |-> {groupId}]

\* filter[key] = { inq: accessGroups }
inqFilter(key, accessGroups) == [kind |-> "inq", key |-> key, val |-> accessGroups]

\* variant: the groups of every user are collected
accessGroupIdsAllUsers(store, userId) == {x[groupKey] : x \in BagToSet(store)}

\* getAccessGroupsForUser and Array.from(accessGroups, group => group[groupKey]):
\* the group ids of the rows found for where[userKey] = userId
accessGroupIds(store, userId) ==
  {x[groupKey] : x \in {y \in BagToSet(store) : Matches(y, (userKey :> Eq(userId)))}}

\* variant: the caller's where clause is replaced by the filter
rewriteWhereReplace(where, filter) == <<filter>>

\* the hook's `ctx.query.where ? { and: [ where, filter ] } : filter`; a
\* where clause is the list of its conjuncts
rewriteWhere(where, filter) ==
  IF where # <<>> THEN where \o <<filter>> ELSE <<filter>>

\* variant: the hook takes a current user to be there
hasCurrentUserAlways(hasUser) == TRUE

\* the hook's `if (ctx.options.currentUser)`
hasCurrentUser(hasUser) == hasUser

\* variant: the hook ignores the flag
hookSkipsNever(flag) == FALSE

\* the hook's `if (!groupAccessApplied)`
hookSkips(flag) == flag # "true"

\* the request's resolvers have all called back, none with an error
AccessChecked(r) ==
  \A i \in Invs : i[1] = r => (inv[i].pc = "done" /\ inv[i].outcome # "error")

\* the read reaches the model's access observers (setupAccessFilter, 489-521)
AccessHook(r) ==
  LET c == ctx[r]
      Model == modelOf(r)
      flag == groupAccessApplied[optionsOf(r)]
      groupId == optionsCurrentGroupId(r)
  IN
  /\ read[r].pc = "idle"
  /\ AccessChecked(r)
  /\ UNCHANGED <<applyToStatic, rows, ctx, groupAccessApplied, inv, setup, listing, mw>>
  /\ \E where0 \in {<<>>, <<callerWhere>>} : \E hasUser \in BOOLEAN :
       /\ hasUser => (c.userId # None /\ c.hasOptions)
       /\ LET me == [read[r] EXCEPT !.where0 = where0, !.where = where0,
                                    !.hasUser = hasUser, !.applied = flag]
          IN
          IF Model \notin hookedModels \/ ~hasCurrentUser(hasUser) \/ hookSkips(flag)
          THEN read' = [read EXCEPT ![r] = [me EXCEPT !.pc = "done"]]
          ELSE IF restrictsToGroup(groupId, Model)
          THEN read' = [read EXCEPT ![r] = [me EXCEPT !.pc = "building", !.via = "tick"]]
          ELSE read' = [read EXCEPT ![r] = [me EXCEPT !.pc = "building", !.via = "find",
                                                      !.lookups = @ + 1]]

\* buildFilter settles and the hook's then-handler rewrites the query
\* (619-648, 507-516); buildFilter has no rejection handler for
\* getAccessGroupsForUser, so a failed find settles nothing
BuildFilterDone(r) ==
  LET c == ctx[r]
      me == read[r]
      key == filterKey(modelOf(r))
  IN
  /\ me.pc = "building"
  /\ UNCHANGED <<applyToStatic, rows, ctx, groupAccessApplied, inv, setup, listing, mw>>
  /\ IF me.via = "tick"
     THEN read' = [read EXCEPT ![r] = [me EXCEPT
                     !.pc = "done",
                     !.where = rewriteWhere(me.where, groupFilter(key, optionsCurrentGroupId(r)))]]
     ELSE \E err \in BOOLEAN :
            IF err
            THEN read' = [read EXCEPT ![r] = [me EXCEPT !.pc = "hung", !.failed = TRUE]]
            ELSE read' = [read EXCEPT ![r] = [me EXCEPT
                            !.pc = "done",
                            !.where = rewriteWhere(me.where,
                                        inqFilter(key, accessGroupIds(rows, c.userId)))]]

(* ---- the listing hooks (model-filters, afterRemote) ---- *)
\* _filter(groupAccesses, roleFilter): the rows of (userId, groupId), one
\* entry per stored row
rolesFound(store, userId, groupId) ==
  LET hit == {x \in BagToSet(store) : x[userKey] = userId /\ x[groupKey] = groupId}
  IN  [x \in hit |-> store[x]]

\* `if (rolesFound.length === 1)`
keepsItem(found) == BagCardinality(found) = 1

\* rolesFound[0].role
firstRole(found) == (CHOOSE x \in BagToSet(found) : TRUE)["role"]

\* filterAndAddRolesToGroups, the forEach over the groups of ctx.result:
\* the groups kept, each with myRole
groupsWithRoles(store, curUserId, result) ==
  LET keep(g) == keepsItem(rolesFound(store, curUserId, g))
      kept == SelectSeq(result, keep)
  IN  [k \in 1..Len(kept) |->
         [id |-> kept[k], role |-> firstRole(rolesFound(store, curUserId, kept[k]))]]

\* filterAndAddRolesToUsers, the forEach over the users of ctx.result:
\* the users kept, each with role
usersWithRoles(store, curGroupId, result) ==
  LET keep(u) == keepsItem(rolesFound(store, u, curGroupId))
      kept == SelectSeq(result, keep)
  IN  [k \in 1..Len(kept) |->
         [id |-> kept[k], role |-> firstRole(rolesFound(store, kept[k], curGroupId))]]

\* ctx.result of a remote method: an array of instances, or one instance
ResultsOf(ids) ==
  {<<>>} \cup {<<x>> : x \in ids}
    \cup {s \in {<<x, y>> : x \in ids, y \in ids} : s[1] # s[2]}

\* one run of a listing hook: `who` is options.currentUserId or
\* options.currentGroupId, `list` the items the hook computes
RunListing(kind, who, result, single, err, list) ==
  LET me == [listing EXCEPT !.kind = kind, !.who = who, !.result = result,
                            !.single = single]
  IN
  IF who = None \/ err
  \* next(new Error(...)) or next(err) of the find
  THEN listing' = [me EXCEPT !.pc = "error"]
  \* a single instance: toReturn is { }, push is not a function
  ELSE IF single /\ list # <<>>
  THEN listing' = [me EXCEPT !.pc = "thrown"]
  ELSE listing' = [me EXCEPT !.pc = "done", !.out = list]

\* model-filters 189-272
FilterAndAddRolesToGroups ==
  /\ listing.pc = "idle"
  /\ UNCHANGED <<applyToStatic, rows, ctx, groupAccessApplied, inv, read, setup, mw>>
  /\ \E curUserId \in Users \cup {None} : \E result \in ResultsOf(Groups) :
     \E single \in BOOLEAN : \E err \in BOOLEAN :
       /\ single => Len(result) = 1
       /\ RunListing("groups", curUserId, result, single, err,
                     groupsWithRoles(rows, curUserId, result))

\* model-filters 96-181
FilterAndAddRolesToUsers ==
  /\ listing.pc = "idle"
  /\ UNCHANGED <<applyToStatic, rows, ctx, groupAccessApplied, inv, read, setup, mw>>
  /\ \E curGroupId \in Groups \cup {None} : \E result \in ResultsOf(Users) :
     \E single \in BOOLEAN : \E err \in BOOLEAN :
       /\ single => Len(result) = 1
       /\ RunListing("users", curGroupId, result, single, err,
                     usersWithRoles(rows, curGroupId, result))

(* ---- the membership store changes ---- *)
\* the rows another operation may create or delete meanwhile
SkewRows ==
  {Row("u1", "g1", "admin"), Row("u1", "g2", "admin"), Row("u1", "g1", "member")}

\* a membership row is created, or an existing one deleted
StoreWrite ==
  /\ UNCHANGED <<applyToStatic, ctx, groupAccessApplied, inv, read, setup, listing, mw>>
  /\ \E row \in SkewRows :
       rows' = IF BagIn(row, rows) THEN rows (-) SetToBag({row})
               ELSE rows (+) SetToBag({row})

(* ---- the updateUserGroupAccessed middleware ---- *)
\* variant: one of the two ids is enough
bothSetEither(currentUserId, currentGroupId) ==
  currentUserId # None \/ currentGroupId # None

\* `if (req.args.options.currentUserId && req.args.options.currentGroupId)`
bothSet(currentUserId, currentGroupId) ==
  currentUserId # None /\ currentGroupId # None

\* filter.where[userKey] = currentUserId; filter.where[groupKey] = currentGroupId
accessedFilter(currentUserId, currentGroupId) ==
  (userKey :> Eq(currentUserId)) @@ (groupKey :> Eq(currentGroupId))

\* the rows findOne may hand to its callback
accessedRows(store, currentUserId, currentGroupId) ==
  {x \in BagToSet(store) : Matches(x, accessedFilter(currentUserId, currentGroupId))}

\* next() or next(err) is called
Continue(me, err) ==
  mw' = [me EXCEPT !.pc = "done", !.nexts = @ + 1, !.err = err]

\* the middleware function runs for a request (part_002, 9-42)
UpdateUserGroupAccessed ==
  /\ mw.pc \in {"idle", "done"}
  /\ UNCHANGED <<applyToStatic, rows, ctx, groupAccessApplied, inv, read, setup, listing>>
  /\ \E currentUserId \in Users \cup {None} : \E currentGroupId \in Groups \cup {None} :
       LET me == [idleMw EXCEPT !.currentUserId = currentUserId,
                                !.currentGroupId = currentGroupId]
       IN
       IF bothSet(currentUserId, currentGroupId)
       THEN mw' = [me EXCEPT !.pc = "finding", !.finds = @ + 1]
       ELSE Continue(me, FALSE)

\* the callback of GroupAccessModel.findOne
FindOneDone ==
  /\ mw.pc = "finding"
  /\ UNCHANGED <<applyToStatic, rows, ctx, groupAccessApplied, inv, read, setup, listing>>
  /\ LET found == accessedRows(rows, mw.currentUserId, mw.currentGroupId) IN
     \/ Continue(mw, TRUE)                 \* if (err) return next(err)
     \/ /\ found = {}
        /\ Continue(mw, TRUE)              \* next(new Error('No ... model found'))
     \/ \E accessModelInstance \in found :
          mw' = [mw EXCEPT !.pc = "updating", !.instance = accessModelInstance]

\* the callback of accessModelInstance.updateAttributes({ lastUsedAt })
UpdateAttributesDone ==
  /\ mw.pc = "updating"
  /\ UNCHANGED <<applyToStatic, rows, ctx, groupAccessApplied, inv, read, setup, listing>>
  /\ \/ Continue(mw, TRUE)                 \* if (err) return next(err)
     \/ Continue([mw EXCEPT !.updated = TRUE], FALSE)

(* ---- setup: one call of parseConfigOptions(app, optionsObj) ---- *)
ParseConfigOptions ==
  /\ setup.calls < MaxParseCalls
  /\ UNCHANGED <<applyToStatic, rows, ctx, groupAccessApplied, inv, read, listing, mw>>
  /\ \E optionsObj \in OptionsObjs :
       LET parsed == parsedGroupRoles(optionsObj)
           me == [setup EXCEPT !.calls = @ + 1, !.input = parsed,
                               !.opts = optionsObj.names]
       IN
       IF setup.stored
       THEN setup' = [me EXCEPT !.last = "ok", !.returned = setup.settings]
       ELSE IF \E k \in 1..Len(parsed) : ~isValidPrincipalId(parsed[k])
       THEN setup' = [me EXCEPT !.last = "thrown", !.returned = <<>>]
       ELSE setup' = [me EXCEPT !.last = "ok", !.stored = TRUE,
                                !.settings = parsed, !.returned = parsed,
                                !.names = parsedNames(optionsObj.names)]

(* ---- specification ---- *)
ResolverStep ==
  \E i \in Invs :
    \/ Invoke(i)
    \/ BasicFindById(i)
    \/ BasicRelated(i)
    \/ BasicCount(i)
    \/ CurResolve(i)
    \/ TgtResolve(i)
    \/ Join(i)
    \/ \E k \in 1..2 : CountDone(i, k)
    \/ Spread(i)

ReadStep ==
  \E r \in Reqs :
    \/ AccessHook(r)
    \/ BuildFilterDone(r)

Next == ResolverStep \/ ReadStep

Spec == Init /\ [][Next]_vars

\* the component's setup on a fresh app; no request is served meanwhile
SetupInit ==
  /\ applyToStatic = FALSE
  /\ rows = EmptyBag
  /\ ctx = [r \in {} |-> None]
  /\ groupAccessApplied = [r \in Reqs |-> "absent"]
  /\ inv = [i \in Invs |-> idleInv]
  /\ read = [r \in Reqs |-> idleRead]
  /\ setup = freshSetup
  /\ listing = idleListing
  /\ mw = idleMw

SetupNext == ParseConfigOptions

\* the listing hooks on the results of a remote method, extended mode
ListInit ==
  /\ applyToStatic = TRUE
  /\ rows \in Stores
  /\ ctx = [r \in {} |-> None]
  /\ groupAccessApplied = [r \in Reqs |-> "absent"]
  /\ inv = [i \in Invs |-> idleInv]
  /\ read = [r \in Reqs |-> idleRead]
  /\ setup = parsedSetup
  /\ listing = idleListing
  /\ mw = idleMw

ListNext == FilterAndAddRolesToGroups \/ FilterAndAddRolesToUsers

ListSpec == ListInit /\ [][ListNext]_vars

\* the middleware alone, on any store
MwInit ==
  /\ applyToStatic \in BOOLEAN
  /\ rows \in Stores
  /\ ctx = [r \in {} |-> None]
  /\ groupAccessApplied = [r \in Reqs |-> "absent"]
  /\ inv = [i \in Invs |-> idleInv]
  /\ read = [r \in Reqs |-> idleRead]
  /\ setup = parsedSetup
  /\ listing = idleListing
  /\ mw = idleMw

MwNext == UpdateUserGroupAccessed \/ FindOneDone \/ UpdateAttributesDone

MwSpec == MwInit /\ [][MwNext]_vars

\* two requests served concurrently by one process
ConcContexts ==
  {[userId |-> "u1", hasOptions |-> TRUE, target |-> <<"Doc", "d1">>, header |-> "g1"],
   [userId |-> "u2", hasOptions |-> TRUE, target |-> <<"Doc", "d1">>, header |-> "g1"],
   [userId |-> "u1", hasOptions |-> TRUE, target |-> <<"Note", "n1">>, header |-> None],
   [userId |-> "u2", hasOptions |-> TRUE, target |-> <<"Doc", None>>, header |-> "g2"],
   [userId |-> None, hasOptions |-> TRUE, target |-> <<"Doc", "d2">>, header |-> "g2"],
   [userId |-> "u1", hasOptions |-> FALSE, target |-> <<"Group", "g1">>, header |-> None]}

ConcStores ==
  {SeqToBag(<<Row("u1", "g1", "admin")>>),
   SeqToBag(<<Row("u1", "g1", "admin"), Row("u2", "g2", "member")>>),
   SeqToBag(<<Row("u1", "g1", "Admin"), Row("u2", "g1", "admin")>>)}

ConcInit ==
  /\ applyToStatic \in BOOLEAN
  /\ rows \in ConcStores
  /\ ctx \in [Requests -> ConcContexts]
  /\ groupAccessApplied = [r \in Reqs |-> "absent"]
  /\ inv = [i \in Invs |-> idleInv]
  /\ read = [r \in Reqs |-> idleRead]
  /\ setup = parsedSetup
  /\ listing = idleListing
  /\ mw = idleMw

ConcSpec == ConcInit /\ [][Next]_vars

SetupSpec == SetupInit /\ [][SetupNext]_vars

\* one request served while membership rows are created and deleted
SkewInit ==
  /\ applyToStatic \in BOOLEAN
  /\ rows \in {EmptyBag, SetToBag({Row("u1", "g1", "admin")})}
  /\ ctx \in [{"r1"} -> ConcContexts]
  /\ groupAccessApplied = [r \in Reqs |-> "absent"]
  /\ inv = [i \in Invs |-> idleInv]
  /\ read = [r \in Reqs |-> idleRead]
  /\ setup = parsedSetup
  /\ listing = idleListing
  /\ mw = idleMw

SkewNext == Next \/ StoreWrite

SkewSpec == SkewInit /\ [][SkewNext]_vars

(* ---- vocabulary of the properties ---- *)
Final == {"done", "hung", "thrown"}
Decided(i) == inv[i].outcome \in {"ALLOW", "DENY"}
principalRole(i) == extractRoleName(groupRoles[i[2]])

\* a membership row (u, g, role) exists, role compared exactly
HasRow(u, g, role) == \E x \in BagToSet(rows) :
  x[userKey] = u /\ x[groupKey] = g /\ x["role"] = role

\* number of membership rows of (u, g) whose role is `role` up to letter case
MemberCountCI(u, g, role) ==
  LET hit == {x \in BagToSet(rows) :
                x[userKey] = u /\ x[groupKey] = g /\ Lower(x["role"]) = Lower(role)}
  IN  BagCardinality([x \in hit |-> rows[x]])

\* the group owning the instance a request is about: the group itself, the
\* instance's group foreign key, or the group of its belongsTo relation
OwningGroup(r) ==
  LET m == modelOf(r)
      id == modelIdOf(r)
  IN  IF id = None THEN None
      ELSE IF isGroupModel(m) THEN id
      ELSE IF id \notin DOMAIN instances[m] THEN None
      ELSE IF instances[m][id].fk # None THEN instances[m][id].fk
      ELSE instances[m][id].rel

\* the group of C3: the instance's foreign key, or the Group instance itself
KeyedGroup(r) ==
  LET m == modelOf(r)
      id == modelIdOf(r)
  IN  IF id = None THEN None
      ELSE IF isGroupModel(m) THEN id
      ELSE IF id \in DOMAIN instances[m] THEN instances[m][id].fk ELSE None

(* ---- C1 ---- *)
\* C1: an invocation whose context has no user id delivers DENY, in both
\* modes, for every principal, model and instance id.
C1_AnonymousDenied ==
  \A i \in Invs :
    (ctx[i[1]].userId = None /\ inv[i].pc # "idle") => inv[i].outcome = "DENY"

C1_Witness ==
  \E i \in Invs : /\ ctx[i[1]].userId = None
                  /\ ~ctx[i[1]].hasOptions
                  /\ modelIdOf(i[1]) # None
                  /\ inv[i].outcome = "DENY"

(* ---- C2 ---- *)
\* C2: basic mode, authenticated user U, instance owned by group G, no
\* membership row (U, G, R): the decision for $group:R is DENY, also when
\* the request has no options bag.
C2_NoRowDenied ==
  \A i \in Invs :
    LET r == i[1] IN
    (/\ ~applyToStatic
     /\ ctx[r].userId # None
     /\ OwningGroup(r) # None
     /\ ~HasRow(ctx[r].userId, OwningGroup(r), principalRole(i))
     /\ Decided(i)) => inv[i].outcome = "DENY"

C4_StaticDenied ==
  \A i \in Invs :
    LET r == i[1] IN
    (/\ ~applyToStatic
     /\ ctx[r].userId # None
     /\ modelIdOf(r) = None
     /\ Decided(i)) => inv[i].outcome = "DENY"

C6_BypassLeavesFlag ==
  \A i \in Invs :
    (applyToStatic /\ inv[i].bypass /\ inv[i].pc = "done" /\ Decided(i))
    => (inv[i].outcome = "ALLOW" /\ inv[i].appliedAfter = "false")

(* ---- C7 ---- *)
\* C7: within one operation groupAccessApplied, once true, is never set
\* back to false by a later step of the same operation.
C7_FlagWriteOnce ==
  [][\A r \in Reqs : groupAccessApplied[r] = "true" => groupAccessApplied'[r] = "true"]_vars

(* ---- C8 ---- *)
\* C8: an invocation writes groupAccessApplied = true at most once, and
\* only in extended mode with decision ALLOW; the flag is true only if some
\* invocation of the request wrote it.
C8_CommitOnlyOnExtendedAllow ==
  /\ \A i \in Invs :
       /\ inv[i].sets <= 1
       /\ inv[i].sets = 1 => (applyToStatic /\ inv[i].outcome = "ALLOW")
  /\ \A r \in Reqs :
       groupAccessApplied[r] = "true" =>
         \E i \in Invs : i[1] = r /\ inv[i].sets = 1

C8_Witness ==
  \E i \in Invs : \E j \in Invs :
    /\ i[1] = j[1]
    /\ inv[i].sets = 1 /\ inv[i].outcome = "ALLOW"
    /\ inv[j].sets = 0 /\ inv[j].outcome = "DENY" /\ inv[j].lookups > 0

(* ---- C9 ---- *)
\* C9: an invocation during which a lookup failed (instance fetch,
\* related-group fetch, membership count) never delivers ALLOW.
C9_FailureNeverAllows ==
  \A i \in Invs : inv[i].failed => inv[i].outcome # "ALLOW"

C9_Witness ==
  \E i \in Invs : \E j \in Invs :
    /\ inv[i].failed /\ inv[i].outcome = "error"
    /\ inv[j].outcome = "ALLOW"

(* ---- C10 ---- *)
\* C10: an invocation during which a lookup failed does not stay pending:
\* once it has no step left, its caller has received a failure.
C10_FailureReported ==
  \A i \in Invs :
    (inv[i].failed /\ inv[i].pc \in Final) => inv[i].outcome = "error"

(* ---- C11 ---- *)
\* C11: in both modes, an instance id given for a non-Group model with no
\* such instance: the decision for an authenticated user is DENY and no
\* error is reported.
C11_MissingInstanceDenied ==
  \A i \in Invs :
    LET r == i[1] IN
    (/\ ctx[r].userId # None
     /\ ~isGroupModel(modelOf(r))
     /\ modelIdOf(r) # None
     /\ modelIdOf(r) \notin DOMAIN instances[modelOf(r)]
     /\ inv[i].pc \in Final
     /\ ~inv[i].failed) => inv[i].outcome = "DENY"

(* ---- vocabulary of the read properties ---- *)
\* the groups in which user u has a membership row
UserGroups(u) == {g \in Groups : \E x \in BagToSet(rows) : x[userKey] = u /\ x[groupKey] = g}

\* the read of request r went through the filter builder
Filtered(r) == read[r].pc = "done" /\ read[r].hasUser /\ read[r].applied = "true"
                 /\ modelOf(r) \in hookedModels

\* the conjuncts the hook added to the caller's where clause
Added(r) == SubSeq(read[r].where, Len(read[r].where0) + 1, Len(read[r].where))

ContentModels == {"Doc", "Note"}
MembershipModels == {"User", "Group", "GroupAccess"}

(* ---- C12 ---- *)
\* C12: every group id admitted by a restriction the hook added to a read
\* of user U is a group in which U has a membership row.
C12_RestrictionWithinMemberships ==
  \A r \in Reqs :
    read[r].pc = "done" =>
      \A k \in 1..Len(Added(r)) : Added(r)[k].val \subseteq UserGroups(ctx[r].userId)

C16_NoFlagNoRewrite ==
  \A r \in Reqs :
    /\ (read[r].pc # "idle" /\ read[r].applied # "true")
         => (read[r].pc = "done" /\ read[r].where = read[r].where0
             /\ read[r].lookups = 0)
    /\ read[r].where # read[r].where0 => read[r].applied = "true"

C16_Witness ==
  \E r \in Reqs :
    /\ modelOf(r) \in hookedModels
    /\ read[r].hasUser
    /\ read[r].applied = "false"
    /\ read[r].where0 # <<>>
    /\ read[r].pc = "done"

(* ---- C17 ---- *)
\* C17: a read whose membership lookup failed is failed with that error:
\* it does not stay pending and does not go on unfiltered.
C17_FilterFailureReported ==
  \A r \in Reqs :
    (read[r].failed /\ read[r].pc \in {"done", "hung", "failed"})
    => read[r].pc = "failed"

(* ---- C18 ---- *)
\* C18 (Scenario B): extended mode, a create (no instance id) whose request
\* names a group in which the user has no membership row, the user's rows
\* being in another group: the decision for the role of such a row is DENY.
C18_CreateInForeignGroupDenied ==
  \A i \in Invs :
    LET r == i[1]
        u == ctx[r].userId
    IN
    (/\ applyToStatic
     /\ u # None
     /\ modelIdOf(r) = None
     /\ headerGroup(r) # None
     /\ headerGroup(r) \notin UserGroups(u)
     /\ \E g \in Groups : HasRow(u, g, principalRole(i))
     /\ inv[i].pc \in Final
     /\ ~inv[i].failed) => inv[i].outcome = "DENY"

(* ---- C19 ---- *)
\* a principal id of the form $group:<roleName>, role name not empty
WellFormedPrincipal(p) ==
  Len(p) = 3 /\ p[1] = "$group" /\ p[2] = ":" /\ p[3] # ":"

\* C19: option parsing succeeds only if every groupRoles entry it was given
\* has the form $group:<roleName>; any other entry makes it throw, also
\* when settings are already stored on the app.
C19_OnlyGroupPrincipalsAccepted ==
  setup.last = "ok" =>
    \A k \in 1..Len(setup.input) : WellFormedPrincipal(setup.input[k])

(* ---- C20 ---- *)
\* the decision request r's resolver for principal k reaches when no lookup
\* fails, from the request's own context and the store; "pending" when its
\* callback is never called
AloneDecision(i) ==
  LET r == i[1]
      u == ctx[r].userId
      m == modelOf(r)
      id == modelIdOf(r)
      role == principalRole(i)
      cur == IF isGroupModel(m) THEN id
             ELSE IF id # None THEN KeyedGroup(r) ELSE headerGroup(r)
      tgt == headerGroup(r)
      yes(b) == IF b THEN "ALLOW" ELSE "DENY"
  IN  IF u = None THEN "DENY"
      ELSE IF ~ctx[r].hasOptions THEN "ALLOW"
      ELSE IF ~applyToStatic
      THEN IF KeyedGroup(r) # None THEN yes(HasRow(u, KeyedGroup(r), role))
           ELSE IF OwningGroup(r) # None THEN "pending"
           ELSE "DENY"
      ELSE IF cur = None THEN "ALLOW"
      ELSE yes(/\ MemberCountCI(u, cur, role) > 0
               /\ (tgt # None /\ tgt # cur) => MemberCountCI(u, tgt, role) > 0)

\* the invocations of request r that got past the checks for a user and
\* an options bag
Started(r) ==
  {i \in Invs : i[1] = r /\ inv[i].pc # "idle"
                  /\ ctx[r].userId # None /\ ctx[r].hasOptions}

\* the flag and the decisions of request r are those of r on its own
RunsAlone(r) ==
  /\ \A i \in Invs :
       (i[1] = r /\ inv[i].pc \in Final /\ ~inv[i].failed)
       => inv[i].outcome = AloneDecision(i)
  /\ groupAccessApplied[r] = "absent" <=> Started(r) = {}
  /\ groupAccessApplied[r] = "true" => \E i \in Started(r) : inv[i].sets = 1
  /\ \A i \in Invs :
       (i[1] = r /\ inv[i].pc = "done")
       => /\ i \notin Started(r) => inv[i].appliedAfter = "absent"
          /\ i \in Started(r) => inv[i].appliedAfter # "absent"
          /\ inv[i].sets = 1 => inv[i].appliedAfter = "true"

\* a step of request r leaves every other request as it was
StepOf(r) ==
  \A o \in Reqs \ {r} :
    /\ groupAccessApplied'[o] = groupAccessApplied[o]
    /\ read'[o] = read[o]
    /\ \A i \in Invs : i[1] = o => inv'[i] = inv[i]

\* C20: with two requests interleaved, every step changes the flag, the
\* decisions and the read of one request only, and each request's flag and
\* decisions are the ones it reaches alone against the same store.
C20_RequestsIsolated ==
  /\ [](\A r \in Reqs : RunsAlone(r))
  /\ [][\E r \in Reqs : StepOf(r)]_vars

C20_Witness ==
  /\ applyToStatic
  /\ ctx["r1"].userId # ctx["r2"].userId
  /\ inv[<<"r1", 1>>].outcome = "ALLOW" /\ inv[<<"r1", 1>>].sets = 1
  /\ inv[<<"r2", 1>>].outcome = "DENY" /\ inv[<<"r2", 1>>].lookups > 0
  /\ inv[<<"r1", 2>>].pc = "counting"
  /\ inv[<<"r2", 2>>].pc = "resolving"
  /\ groupAccessApplied["r1"] = "true"
  /\ groupAccessApplied["r2"] = "false"

(* ---- vocabulary of the group resolution properties ---- *)
\* the instance the request names exists and its model is not the group model
ExistingInstance(r) ==
  /\ modelOf(r) # groupModel
  /\ modelIdOf(r) # None
  /\ modelIdOf(r) \in DOMAIN instances[modelOf(r)]

\* number of membership rows (u, g, role), the role compared exactly
MemberCountExact(u, g, role) ==
  LET hit == {x \in BagToSet(rows) :
                x[userKey] = u /\ x[groupKey] = g /\ x["role"] = role}
  IN  BagCardinality([x \in hit |-> rows[x]])

\* the access hook narrowed the instance fetch of invocation i
FetchNarrowed(i) ==
  /\ inv[i].fetchFlag # "none"
  /\ modelOf(i[1]) \in hookedModels
  /\ ~hookSkips(inv[i].fetchFlag)

(* ---- C21 ---- *)
\* C21: extended mode: as long as the current group resolution or the
\* target group resolution of an invocation has not completed, the
\* invocation has issued no membership count.
C21_CountsAfterBothResolved ==
  \A i \in Invs :
    (applyToStatic /\ ~(inv[i].curSt = "ok" /\ inv[i].tgtSt = "ok"))
    => /\ inv[i].q = <<>>
       /\ inv[i].cnt = <<>>
       /\ inv[i].pc # "counting"
       /\ inv[i].lookups <= IF ExistingInstance(i[1]) \/ inv[i].fetchFlag # "none"
                            THEN 1 ELSE 0

C21_Witness ==
  \E i \in Invs :
    /\ applyToStatic
    /\ inv[i].pc = "counting"
    /\ Len(inv[i].q) = 2
    /\ inv[i].lookups = 3
    /\ inv[i].curSt = "ok" /\ inv[i].tgtSt = "ok"

(* ---- C22 ---- *)
\* C22: the instance fetch of getCurrentGroupId is never narrowed by the
\* access hook: the hook sees groupAccessApplied false at every fetch,
\* also when another invocation of the request has set it true before.
C22_FetchNeverNarrowed ==
  \A i \in Invs : ~FetchNarrowed(i) /\ inv[i].fetchFlag \in {"none", "false"}

C22_Witness ==
  \E i \in Invs : \E j \in Invs :
    /\ i[1] = j[1] /\ i # j
    /\ modelOf(i[1]) \in hookedModels
    /\ inv[j].sets = 1 /\ inv[j].appliedAfter = "true"
    /\ inv[i].fetchFlag = "false"
    /\ inv[i].pc = "resolving"
    /\ groupAccessApplied[i[1]] = "false"

(* ---- C23 ---- *)
\* C23: for an existing instance of a non-Group model getCurrentGroupId
\* returns the instance's group foreign key when set, otherwise the group
\* of the model's belongsTo relation, and absent only when neither exists.
C23_CurrentGroupFollowsRelation ==
  \A i \in Invs :
    (applyToStatic /\ ExistingInstance(i[1]) /\ inv[i].curSt = "ok")
    => inv[i].cur = OwningGroup(i[1])

(* ---- C24 ---- *)
\* C24: basic mode, instance without a group foreign key whose model has a
\* belongsTo relation to the group model: the decision is ALLOW iff the
\* user has a row with the role in the related group, DENY otherwise.
C24_RelatedGroupDecides ==
  \A i \in Invs :
    LET r == i[1]
        item == instances[modelOf(r)][modelIdOf(r)]
    IN
    (/\ ~applyToStatic
     /\ ctx[r].userId # None
     /\ ctx[r].hasOptions
     /\ ExistingInstance(r)
     /\ item.fk = None
     /\ hasBelongsToGroup(modelOf(r))
     /\ inv[i].pc \in Final
     /\ ~inv[i].failed)
    => inv[i].outcome =
         IF item.rel # None /\ HasRow(ctx[r].userId, item.rel, principalRole(i))
         THEN "ALLOW" ELSE "DENY"

(* ---- C25 ---- *)
\* C25: for the Group model getCurrentGroupId returns the instance id
\* itself, without a store lookup, and does not fail.
C25_GroupModelDirect ==
  \A i \in Invs :
    LET r == i[1] IN
    (applyToStatic /\ modelOf(r) = groupModel /\ inv[i].curSt # "none")
    => /\ inv[i].curSt # "failed"
       /\ inv[i].fetchFlag = "none"
       /\ inv[i].curSt = "ok" => inv[i].cur = modelIdOf(r)
       /\ inv[i].pc = "resolving" => inv[i].lookups = 0

C25_Witness ==
  \E i \in Invs :
    /\ applyToStatic
    /\ modelOf(i[1]) = groupModel
    /\ modelIdOf(i[1]) # None
    /\ ctx[i[1]].header # None /\ ctx[i[1]].header # modelIdOf(i[1])
    /\ inv[i].curSt = "ok"
    /\ inv[i].cur = modelIdOf(i[1])

(* ---- C26 ---- *)
\* C26: non-Group model, no instance id: getCurrentGroupId returns the
\* group header of the request, absent when there is none, without a
\* store lookup.
C26_HeaderIsCurrentGroup ==
  \A i \in Invs :
    LET r == i[1] IN
    (/\ applyToStatic
     /\ modelOf(r) # groupModel
     /\ modelIdOf(r) = None
     /\ inv[i].curSt # "none")
    => /\ inv[i].curSt # "failed"
       /\ inv[i].fetchFlag = "none"
       /\ inv[i].curSt = "ok" => inv[i].cur = ctx[r].header
       /\ inv[i].pc = "resolving" => inv[i].lookups = 0

C26_Witness ==
  \E i \in Invs :
    /\ applyToStatic
    /\ modelOf(i[1]) = "Doc"
    /\ modelIdOf(i[1]) = None
    /\ ctx[i[1]].header = "g2"
    /\ inv[i].curSt = "ok"
    /\ inv[i].cur = "g2"

(* ---- C27 ---- *)
\* C27: getTargetGroupId returns the group header of the request, absent
\* when there is none, whatever the model and instance id, and never fails.
C27_TargetGroupFromHeader ==
  \A i \in Invs :
    /\ inv[i].tgtSt \in {"none", "pending", "ok"}
    /\ inv[i].tgtSt = "ok" => inv[i].tgt = ctx[i[1]].header

C27_Witness ==
  \E i \in Invs :
    /\ modelOf(i[1]) = groupModel
    /\ modelIdOf(i[1]) = "g1"
    /\ inv[i].tgtSt = "ok"
    /\ inv[i].tgt = "g2"

C30_RoleCaseMatching ==
  \A i \in Invs :
    LET r == i[1]
        u == ctx[r].userId
        role == principalRole(i)
    IN
    /\ (~applyToStatic /\ Len(inv[i].cnt) = 1 /\ inv[i].cnt[1] >= 0)
       => /\ inv[i].cnt[1] = MemberCountExact(u, KeyedGroup(r), role)
          /\ inv[i].pc = "done" =>
               inv[i].outcome = IF inv[i].cnt[1] > 0 THEN "ALLOW" ELSE "DENY"
    /\ applyToStatic
       => \A k \in 1..Len(inv[i].cnt) :
            inv[i].cnt[k] >= 0 =>
              inv[i].cnt[k] =
                MemberCountCI(u, IF k = 1 THEN inv[i].cur ELSE inv[i].tgt, role)

C30_Witness ==
  \E i \in Invs :
    LET r == i[1] IN
    /\ ~applyToStatic
    /\ inv[i].pc = "done"
    /\ inv[i].cnt = <<0>>
    /\ inv[i].outcome = "DENY"
    /\ MemberCountCI(ctx[r].userId, KeyedGroup(r), principalRole(i)) > 0

(* ---- C29 ---- *)
\* the store with one row for every (user, group, role) it holds
Dedup(store) == SetToBag(BagToSet(store))

\* C29: a listing produced by a listing hook is the one the hook produces
\* on the store without duplicate rows.
C29_DuplicatesChangeNoListing ==
  listing.pc = "done" =>
    listing.out =
      IF listing.kind = "groups"
      THEN groupsWithRoles(Dedup(rows), listing.who, listing.result)
      ELSE usersWithRoles(Dedup(rows), listing.who, listing.result)

(* ---- C31 ---- *)
\* C31: options parsed on a fresh app from a configuration without userKey
\* have userKey = lower-cased user model name + "Id", and likewise groupKey
\* from the group model name, whatever the configured model names.
C31_KeysDefaultToModelName ==
  (setup.last = "ok" /\ setup.calls = 1) =>
    /\ ~setup.opts.userKey.given =>
         setup.names.userKey = <<toLowerCase(setup.names.userModel), "Id">>
    /\ ~setup.opts.groupKey.given =>
         setup.names.groupKey = <<toLowerCase(setup.names.groupModel), "Id">>

(* ---- C32 ---- *)
\* C32: every extended-mode count is the number of matching rows in the
\* store at the time the count runs, whatever the rows were when the
\* current group was resolved, and the decision is made from these counts:
\* a row created or deleted in between changes the decision.
C32_CountsReadCurrentStore ==
  /\ [](\A i \in Invs :
          (applyToStatic /\ inv[i].curSt = "ok" /\ inv[i].cur # None /\ Decided(i))
          => (inv[i].outcome = "ALLOW" <=>
                /\ inv[i].cnt[1] > 0
                /\ Len(inv[i].cnt) = 2 => inv[i].cnt[2] > 0))
  /\ [][\A i \in Invs : \A k \in 1..Len(inv[i].cnt) :
          (applyToStatic /\ inv[i].cnt[k] = -1 /\ inv'[i].cnt[k] >= 0)
          => inv'[i].cnt[k] =
               MemberCountCI(ctx[i[1]].userId,
                             IF k = 1 THEN inv[i].cur ELSE inv[i].tgt,
                             principalRole(i))]_vars

C32_Witness ==
  \E i \in Invs : \E j \in Invs :
    /\ applyToStatic
    /\ ExistingInstance(i[1])
    /\ inv[i].outcome = "ALLOW"
    /\ inv[i].q # <<>>
    /\ Count(inv[i].rowsAtCur, inv[i].q[1]) = 0
    /\ inv[j].outcome = "DENY"
    /\ inv[j].q # <<>>
    /\ Count(inv[j].rowsAtCur, inv[j].q[1]) > 0

(* ---- C33 ---- *)
\* C33: the step of an invocation without a user id ends the invocation,
\* issues no store query and leaves groupAccessApplied of the request as it
\* was.
C33_AnonymousTouchesNothing ==
  [][\A i \in Invs :
       (ctx[i[1]].userId = None /\ inv'[i] # inv[i])
       => /\ groupAccessApplied' = groupAccessApplied
          /\ inv'[i].pc = "done"
          /\ inv'[i].lookups = 0
          /\ inv'[i].q = <<>>
          /\ inv'[i].fetchFlag = "none"
          /\ inv'[i].curSt = "none"]_vars

C33_Witness ==
  \E i \in Invs :
    /\ applyToStatic
    /\ ctx[i[1]].userId = None
    /\ ctx[i[1]].hasOptions
    /\ ExistingInstance(i[1])
    /\ inv[i].pc = "done"
    /\ inv[i].lookups = 0
    /\ groupAccessApplied[i[1]] = "absent"

(* ---- C34 ---- *)
\* C34: authenticated user, no options bag: the invocation delivers ALLOW
\* in both modes, with no instance fetch and no membership count, and
\* groupAccessApplied is never written.
C34_NoOptionsAllows ==
  \A i \in Invs :
    LET r == i[1] IN
    (ctx[r].userId # None /\ ~ctx[r].hasOptions)
    => /\ groupAccessApplied[r] = "absent"
       /\ inv[i].lookups = 0
       /\ inv[i].q = <<>>
       /\ inv[i].fetchFlag = "none"
       /\ inv[i].pc \in {"idle", "done"}
       /\ inv[i].pc = "done" => inv[i].outcome = "ALLOW"

C34_Witness ==
  \E i \in Invs : \E j \in Invs :
    /\ i # j
    /\ applyToStatic
    /\ ctx[i[1]].userId # None
    /\ ~ctx[i[1]].hasOptions
    /\ ExistingInstance(i[1])
    /\ inv[i].outcome = "ALLOW"
    /\ inv[j].outcome = "ALLOW"
    /\ rows = EmptyBag

C36_CallbackAtMostOnce ==
  \A i \in Invs :
    /\ inv[i].calls <= 1
    /\ inv[i].calls = 1 <=> inv[i].outcome # "pending"

C36_Witness ==
  \E i \in Invs :
    /\ inv[i].failed
    /\ inv[i].outcome = "error"
    /\ inv[i].calls = 1
    /\ Len(inv[i].cnt) = 2
    /\ inv[i].cnt[1] = -1 /\ inv[i].cnt[2] = -1

(* ---- C37 ---- *)
\* C37: in basic mode no model has the hooks, and a read that follows the
\* access check keeps the caller's where clause and issues no lookup,
\* whatever the resolvers decided.
C37_BasicModeRewritesNothing ==
  ~applyToStatic
  => /\ hookedModels = {}
     /\ \A r \in Reqs :
          /\ read[r].pc \in {"idle", "done"}
          /\ read[r].where = read[r].where0
          /\ read[r].lookups = 0

C37_Witness ==
  \E r \in Reqs :
    /\ ~applyToStatic
    /\ read[r].pc = "done"
    /\ read[r].hasUser
    /\ read[r].where0 # <<>>
    /\ modelOf(r) \in getGroupContentModels
    /\ \E i \in Invs : i[1] = r /\ inv[i].outcome = "ALLOW"

(* ---- C38 ---- *)
\* C38: a read whose options carry no currentUser passes the access hook
\* with its where clause unchanged and with no lookup, also when
\* groupAccessApplied is true.
C38_NoCurrentUserNoFilter ==
  \A r \in Reqs :
    (read[r].pc # "idle" /\ ~read[r].hasUser)
    => /\ read[r].pc = "done"
       /\ read[r].where = read[r].where0
       /\ read[r].lookups = 0
       /\ ~read[r].failed

C38_Witness ==
  \E r \in Reqs :
    /\ applyToStatic
    /\ modelOf(r) \in hookedModels
    /\ read[r].pc = "done"
    /\ ~read[r].hasUser
    /\ read[r].applied = "true"
    /\ read[r].where0 # <<>>
    /\ read[r].where = read[r].where0

(* ---- C39 ---- *)
\* C39: the middleware calls next at most once per request and exactly once
\* when it is through; with both ids set it continues without error only
\* with a row of that user and group found and updated, it continues with
\* an error when there is no such row, and with an id missing it continues
\* without an error and without a store call.
C39_ContinuesOnce ==
  LET found == accessedRows(rows, mw.currentUserId, mw.currentGroupId) IN
  /\ mw.nexts <= 1
  /\ mw.nexts = 1 <=> mw.pc = "done"
  /\ mw.pc \in {"idle", "finding", "updating", "done"}
  /\ (mw.pc = "done" /\ mw.currentUserId # None /\ mw.currentGroupId # None)
     => /\ mw.finds = 1
        /\ ~mw.err <=> mw.updated
        /\ mw.updated => mw.instance \in found
        /\ found = {} => mw.err
  /\ (mw.pc # "idle" /\ (mw.currentUserId = None \/ mw.currentGroupId = None))
     => /\ mw.pc = "done"
        /\ ~mw.err
        /\ mw.finds = 0
        /\ ~mw.updated

C39_Witness ==
  /\ mw.pc = "done"
  /\ mw.nexts = 1
  /\ ~mw.err
  /\ mw.updated
  /\ mw.instance[userKey] = "u2"
  /\ BagCardinality(rows) = 2

====
